---- MODULE Spec2Model ----
(***************************************************************************)
(* State-machine model of worker.py: the poll loop of main, one call of    *)
(* poll_once per cycle (fetch_cfp_markets, the write of the current-odds   *)
(* document, the detection of movers against last_prices, the write of the *)
(* movers document), then time.sleep(5).                                   *)
(*                                                                         *)
(* Python values are tagged records [t, v]: PyNone is None, Num(n) a JSON  *)
(* number, StrVal a JSON string that float() rejects.  last_prices is a    *)
(* function whose DOMAIN is the set of keys of the dict.  The wall clock   *)
(* read by datetime.utcnow() is taken to advance between two cycles (they  *)
(* are at least five seconds apart).  A reading is used only by a cycle    *)
(* that gets past "No markets returned" (before that it is just printed),  *)
(* so ts numbers the readings of those cycles: a strictly growing counter. *)
(***************************************************************************)
EXTENDS Integers, Sequences, FiniteSets, TLC

\* ---------------------------------------------------------------- bounds
MaxPrice == 2        \* quotes are drawn from 0..MaxPrice
MaxBatch == 2        \* entries in one API response
MaxCycles == 2       \* cycles whose fetch returns a non-empty clean list
ShortBatch == 1      \* entries in one API response, where fairness is checked

\* ------------------------------------------------------ program constants
SLEEP_SECS == 5
DEFAULT_MIN_MOVE == 1
CFP_EVENT == "KXNCAAFPLAYOFF-25"

\* ------------------------------------------------------------ Python values
PyNone == [t |-> "None", v |-> 0]
StrVal == [t |-> "str", v |-> 0]
Num(n) == [t |-> "num", v |-> n]

Tickers == {"A", "B"}
Unhashable == "[list]"   \* a JSON array given as ticker: a dict key it cannot be
NoKey == "None"          \* what m.get("ticker") returns when the field is absent
Prices == 0..MaxPrice
Thresholds == {0, 1, 2}  \* values of the MIN_MOVE setting (1 is the default)

Abs(x) == IF x < 0 THEN -x ELSE x

\* One element of the "markets" array of the response.
NonDict == [kind |-> "str", has_ticker |-> FALSE, ticker |-> NoKey,
            yes_price |-> PyNone, last_price |-> PyNone]
Quote(has, tk, y, l) == [kind |-> "dict", has_ticker |-> has, ticker |-> tk,
                         yes_price |-> y, last_price |-> l]

Entries ==
    {NonDict}
    \cup {Quote(FALSE, NoKey, Num(0), PyNone)}
    \cup {Quote(TRUE, Unhashable, Num(0), PyNone)}
    \cup {Quote(TRUE, "A", Num(p), PyNone) : p \in Prices}
    \cup {Quote(TRUE, "B", PyNone, Num(MaxPrice)),
          Quote(TRUE, "B", PyNone, PyNone),
          Quote(TRUE, "B", StrVal, PyNone)}

Batches == UNION {[1..n -> Entries] : n \in 0..MaxBatch}

\* What the HTTP exchange of one cycle can turn out to be.
Outcomes == {"sign_fail", "net_fail", "non_json", "non_200", "bad_shape", "ok"}
Responses == {[outcome |-> o, raw |-> <<>>] : o \in Outcomes \ {"ok"}}
             \cup {[outcome |-> "ok", raw |-> b] : b \in Batches}

VARIABLES
    pc,             \* "idle": main is about to call poll_once; "sleep": it returned or raised
    MIN_MOVE,       \* the threshold read from the environment at import
    last_prices,    \* main's dict ticker -> last recorded price
    base0,          \* last_prices as it was when the current poll_once was entered
    ts,             \* clock reading of the current cycle
    resp,           \* how the HTTP exchange of the current cycle went
    sent,           \* HTTP requests sent in the current cycle
    markets,        \* the clean list fetch_cfp_markets returned
    dropped,        \* number of entries of the response it left out
    ticker_payload, \* the list built for cfp_markets/current
    movers,         \* the movers list of the current cycle
    events,         \* the calls of the current cycle, in order
    snap_ok,        \* the set() of cfp_markets/current succeeded
    movers_ok,      \* the set() of movers/<ts> succeeded
    raised,         \* an exception left poll_once and was caught by main
    slept,          \* length of the last time.sleep
    store_current,  \* document cfp_markets/current
    store_movers,   \* collection movers: document id -> document
    cycles,         \* number of cycles with a non-empty clean list
    prev_markets,   \* clean list of the cycle before, if its snapshot write succeeded
    cfg             \* the environment the module is imported in

vars == <<pc, MIN_MOVE, last_prices, base0, ts, resp, sent, markets, dropped,
          ticker_payload,
          movers, events, snap_ok, movers_ok, raised, slept, store_current,
          store_movers, cycles, prev_markets, cfg>>

\* --------------------------------------------------------------- dict helpers
EmptyDict == [k \in {} |-> 0]
GetOrZero(d, k) == IF k \in DOMAIN d THEN Num(d[k]) ELSE Num(0)
Get(d, k) == IF k \in DOMAIN d THEN Num(d[k]) ELSE PyNone
PutIfAbsent(d, k, x) ==
    [j \in (DOMAIN d) \cup {k} |-> IF j \in DOMAIN d THEN d[j] ELSE x]
PutAlone(d, k, x) == [j \in {k} |-> x]
Put(d, k, x) == [j \in (DOMAIN d) \cup {k} |-> IF j = k THEN x ELSE d[j]]

\* ------------------------------------------------------ kalshi_signed_request
SendsUnsigned(r) ==
    IF r.outcome = "net_fail" THEN [sent |-> 1, response |-> PyNone]
    ELSE [sent |-> 1, response |-> StrVal]
\* None when signing or the transport fails; the request is sent only once the
\* signature exists.
kalshi_signed_request(r) ==
    IF r.outcome = "sign_fail" THEN [sent |-> 0, response |-> PyNone]
    ELSE IF r.outcome = "net_fail" THEN [sent |-> 1, response |-> PyNone]
    ELSE [sent |-> 1, response |-> StrVal]

\* ---------------------------------------------------------- fetch_cfp_markets
AnyDict(m) == m.kind = "dict"
\* The two tests an entry passes to be kept.
Valid(m) == m.kind = "dict" /\ m.has_ticker

RECURSIVE Clean(_)
Clean(ms) ==
    IF ms = <<>> THEN <<>>
    ELSE IF ~Valid(Head(ms)) THEN Clean(Tail(ms))
    ELSE <<Head(ms)>> \o Clean(Tail(ms))

FetchRetrying(r) ==
    LET q == kalshi_signed_request(r)
        again == kalshi_signed_request(r)
    IN
    IF q.response = PyNone \/ r.outcome \in {"non_json", "non_200"}
    THEN [markets |-> <<>>, raised |-> FALSE, sent |-> q.sent + again.sent, dropped |-> 0]
    ELSE IF r.outcome = "bad_shape"
    THEN [markets |-> <<>>, raised |-> TRUE, sent |-> q.sent, dropped |-> 0]
    ELSE [markets |-> Clean(r.raw), raised |-> FALSE, sent |-> q.sent,
          dropped |-> Len(r.raw) - Len(Clean(r.raw))]

fetch_cfp_markets(r) ==
    LET q == kalshi_signed_request(r)
        none(exc) == [markets |-> <<>>, raised |-> exc, sent |-> q.sent, dropped |-> 0]
    IN
    IF q.response = PyNone THEN none(FALSE)
    ELSE IF r.outcome = "non_json" THEN none(FALSE)
    ELSE IF r.outcome = "non_200" THEN none(FALSE)
    ELSE IF r.outcome = "bad_shape" THEN none(TRUE)  \* data.get or the loop raises
    ELSE LET clean == Clean(r.raw) IN
         [markets |-> clean, raised |-> FALSE, sent |-> q.sent,
          dropped |-> Len(r.raw) - Len(clean)]

\* ------------------------------------------------------------------ poll_once
NeverEmpty(ms) == FALSE
\* "if not markets": the cycle ends here, before anything is written.
NoMarkets(ms) == ms = <<>>

PriceOf(m) == IF m.yes_price # PyNone THEN m.yes_price ELSE m.last_price

\* float(price): defined on numbers only.
FloatOk(p) == p.t = "num"

\* probability = float(price) / 100.0, kept as the numerator over 100.
Probability(p) == IF FloatOk(p) THEN [t |-> "frac100", v |-> p.v] ELSE PyNone

RECURSIVE BuildPayload(_)
BuildPayload(ms) ==
    IF ms = <<>> THEN <<>>
    ELSE LET m == Head(ms)
             price == PriceOf(m)
         IN IF price = PyNone THEN BuildPayload(Tail(ms))
            ELSE <<[ticker |-> m.ticker, yes_price |-> m.yes_price,
                    last_price |-> m.last_price,
                    probability |-> Probability(price)]>>
                 \o BuildPayload(Tail(ms))

IsMoverAnyChange(diff, thr) == diff # 0
IsMoverStrict(diff, thr) == Abs(diff) > thr
IsMoverUpOnly(diff, thr) == diff >= thr
IsMover(diff, thr) == Abs(diff) >= thr

\* The loop over markets that detects movers; stops where last_prices.get raises.
RECURSIVE DetectFrom(_, _, _, _, _, _)
DetectFrom(ms, i, lp, mv, thr, now) ==
    IF i > Len(ms) THEN [last_prices |-> lp, movers |-> mv, raised |-> FALSE, done |-> i - 1]
    ELSE LET m == ms[i]
             price == PriceOf(m)
         IN IF price = PyNone THEN DetectFrom(ms, i + 1, lp, mv, thr, now)
            ELSE IF ~FloatOk(price) THEN DetectFrom(ms, i + 1, lp, mv, thr, now)
            ELSE IF m.ticker = Unhashable
                 THEN [last_prices |-> lp, movers |-> mv, raised |-> TRUE, done |-> i - 1]
            ELSE LET prev == Get(lp, m.ticker) IN
                 IF prev = PyNone
                 THEN DetectFrom(ms, i + 1, Put(lp, m.ticker, price.v), mv, thr, now)
                 ELSE LET diff == price.v - prev.v IN
                      IF IsMover(diff, thr)
                      THEN DetectFrom(ms, i + 1, Put(lp, m.ticker, price.v),
                                      Append(mv, [ticker |-> m.ticker, change |-> diff,
                                                  old |-> prev.v, new |-> price.v,
                                                  timestamp |-> now]),
                                      thr, now)
                      ELSE DetectFrom(ms, i + 1, lp, mv, thr, now)

Detect(ms, lp, thr, now) == DetectFrom(ms, 1, lp, <<>>, thr, now)

\* ------------------------------------------------------------------ the store
NoDoc == [exists |-> FALSE, timestamp |-> 0, markets |-> <<>>, side |-> FALSE]

SnapshotSetOnce(old, now, payload) ==
    IF old.exists THEN [old EXCEPT !.timestamp = now]
    ELSE [exists |-> TRUE, timestamp |-> now, markets |-> payload, side |-> FALSE]
SnapshotSetAppend(old, now, payload) ==
    [exists |-> TRUE, timestamp |-> now, markets |-> old.markets \o payload,
     side |-> FALSE]
\* DocumentReference.set(data) with no merge option: the document becomes data.
SnapshotSet(old, now, payload) ==
    [exists |-> TRUE, timestamp |-> now, markets |-> payload, side |-> FALSE]

MoversDoc(now, thr, mv) ==
    [timestamp |-> now, min_move |-> thr, count |-> Len(mv), items |-> mv]

MoversSetFixedId(coll, now, doc) == Put(coll, 0, doc)
MoversSet(coll, now, doc) == Put(coll, now, doc)

DetectBeforeSnapshot == <<"detect", "snapshot_set">>
\* The two steps of poll_once between the fetch and the movers write, in the
\* order of the code: the set() of cfp_markets/current, then the detection loop.
BodyOrder == <<"snapshot_set", "detect">>

\* After a failed write of cfp_markets/current poll_once goes on to detection.
SnapshotErrorEscapes == "raise"
AfterSnapshotError == "detect"
\* After a failed write of the movers document poll_once returns normally.
AfterMoversError == "return"

\* ------------------------------------------------------- module-level set-up
\* Each setting is "ok", "missing" (the variable is not set) or "malformed"
\* (set to something that is not what the setting should be).
Settings == {"ok", "missing", "malformed"}
Configs == [store : Settings, api_key : Settings, private_key : Settings,
            min_move : Settings]
GoodConfig == [store |-> "ok", api_key |-> "ok", private_key |-> "ok",
               min_move |-> "ok"]

\* init_firestore: a missing variable, invalid JSON, a missing project_id and a
\* failing client construction all raise.
init_firestore(c) == c.store = "ok"

ImportOkKeyUnchecked(c) ==
    /\ init_firestore(c)
    /\ c.api_key # "missing"
    /\ c.min_move # "malformed"
\* The import of worker.py reaches main() iff none of its set-up steps raises:
\* os.environ["KALSHI_API_KEY_ID"] raises only when the variable is missing,
\* float(os.getenv("MIN_MOVE", "1.0")) only when it is set to a non-number,
\* and the private key must be present and must parse.
ImportOk(c) ==
    /\ init_firestore(c)
    /\ c.api_key # "missing"
    /\ c.min_move # "malformed"
    /\ c.private_key = "ok"

\* MIN_MOVE = float(os.getenv("MIN_MOVE", "1.0")): the values it can take.
ReadMinMove(c) == IF c.min_move = "missing" THEN {DEFAULT_MIN_MOVE} ELSE Thresholds

\* ------------------------------------------------------------------- actions
Init ==
    /\ pc = "idle"
    /\ MIN_MOVE \in Thresholds
    /\ last_prices = EmptyDict
    /\ base0 = EmptyDict
    /\ ts = 0
    /\ resp = "none"
    /\ sent = 0
    /\ markets = <<>>
    /\ dropped = 0
    /\ ticker_payload = <<>>
    /\ movers = <<>>
    /\ events = <<>>
    /\ snap_ok = FALSE
    /\ movers_ok = FALSE
    /\ raised = FALSE
    /\ slept = 0
    /\ store_current = NoDoc
    /\ store_movers = EmptyDict
    /\ cycles = 0
    /\ prev_markets = <<>>
    /\ cfg = GoodConfig

\* One call of poll_once from main's loop, up to its return or to the except
\* clause of main.  f is what fetch_cfp_markets returned, d what the detection
\* loop computes, sOk and mOk tell whether the two store writes succeed.
poll_once(outcome, f, d, sOk, mOk) ==
    LET now == ts + 1
        fetchEv == IF f.sent = 1 THEN <<"sign", "http">> ELSE <<"sign">>
        payload == BuildPayload(f.markets)
        snapEsc == ~sOk /\ AfterSnapshotError # "detect"
        movWrite == ~snapEsc /\ ~d.raised /\ d.movers # <<>>
        movEsc == movWrite /\ ~mOk /\ AfterMoversError # "return"
    IN
    /\ pc = "idle"
    /\ ~NoMarkets(f.markets) => cycles < MaxCycles
    /\ pc' = "sleep"
    /\ resp' = outcome
    /\ sent' = f.sent
    /\ base0' = last_prices
    /\ markets' = f.markets
    /\ dropped' = f.dropped
    /\ UNCHANGED <<MIN_MOVE, slept, prev_markets, cfg>>
    /\ IF NoMarkets(f.markets)
       THEN \* "No markets returned": return last_prices, 0 (or the fetch raised)
            /\ raised' = f.raised
            /\ events' = fetchEv \o (IF f.raised THEN <<"raise">> ELSE <<"return">>)
            /\ ticker_payload' = <<>>
            /\ movers' = <<>>
            /\ snap_ok' = FALSE
            /\ movers_ok' = FALSE
            /\ UNCHANGED <<ts, last_prices, store_current, store_movers, cycles>>
       ELSE /\ cycles' = cycles + 1
            /\ ts' = now
            /\ ticker_payload' = payload
            /\ snap_ok' = sOk
            /\ store_current' = IF sOk THEN SnapshotSet(store_current, now, payload)
                                ELSE store_current
            /\ IF snapEsc
               THEN /\ raised' = TRUE
                    /\ events' = fetchEv \o <<"snapshot_set", "raise">>
                    /\ movers' = <<>>
                    /\ movers_ok' = FALSE
                    /\ UNCHANGED <<last_prices, store_movers>>
               ELSE /\ last_prices' = d.last_prices
                    /\ movers' = d.movers
                    /\ raised' = (d.raised \/ movEsc)
                    /\ movers_ok' = (movWrite /\ mOk)
                    /\ store_movers' = IF movWrite /\ mOk
                                       THEN MoversSet(store_movers, now,
                                                      MoversDoc(now, MIN_MOVE, d.movers))
                                       ELSE store_movers
                    /\ events' = fetchEv \o BodyOrder
                                 \o (IF movWrite THEN <<"movers_set">> ELSE <<>>)
                                 \o (IF d.raised \/ movEsc THEN <<"raise">> ELSE <<"return">>)

PollOnceOf(R) ==
    \E r \in R :
      \E f \in {fetch_cfp_markets(r)} :
        \E d \in {Detect(f.markets, last_prices, MIN_MOVE, ts + 1)} :
          \E sOk \in (IF NoMarkets(f.markets) THEN {FALSE} ELSE BOOLEAN) :
            \E mOk \in (IF d.movers = <<>> \/ d.raised THEN {FALSE} ELSE BOOLEAN) :
              poll_once(r.outcome, f, d, sOk, mOk)

PollOnce == PollOnceOf(Responses)

\* Length of the wait after a cycle, whatever the cycle did.
SleepBackoff(wasRaised, wasEmpty) ==
    IF wasRaised \/ wasEmpty THEN SLEEP_SECS + SLEEP_SECS ELSE SLEEP_SECS
SleepFor(wasRaised, wasEmpty) == SLEEP_SECS

\* time.sleep(5) at the end of the loop body; the locals of poll_once are gone.
Sleep ==
    /\ pc = "sleep"
    /\ pc' = "idle"
    /\ slept' = SleepFor(raised, markets = <<>>)
    /\ resp' = "none"
    /\ sent' = 0
    /\ markets' = <<>>
    /\ dropped' = 0
    /\ ticker_payload' = <<>>
    /\ movers' = <<>>
    /\ events' = <<>>
    /\ snap_ok' = FALSE
    /\ movers_ok' = FALSE
    /\ raised' = FALSE
    /\ base0' = last_prices
    /\ prev_markets' = IF snap_ok THEN markets ELSE <<>>
    /\ UNCHANGED <<MIN_MOVE, last_prices, ts, store_current, store_movers, cycles, cfg>>

\* Another client of the store adds a field of its own to cfp_markets/current.
OutOfBand ==
    /\ pc = "idle"
    /\ store_current.exists
    /\ ~store_current.side
    /\ store_current' = [store_current EXCEPT !.side = TRUE]
    /\ UNCHANGED <<pc, MIN_MOVE, last_prices, base0, ts, resp, sent, markets, dropped,
                   ticker_payload, movers, events, snap_ok, movers_ok, raised,
                   slept, store_movers, cycles, prev_markets, cfg>>

Next == PollOnce \/ Sleep \/ OutOfBand

Spec == Init /\ [][Next]_vars

\* The same loop on responses of at most ShortBatch entries.  main never
\* leaves its loop, so each of its two steps is taken once it can be.
ShortResponses == {r \in Responses : Len(r.raw) <= ShortBatch}
PollOnceShort == PollOnceOf(ShortResponses)
NextShort == PollOnceShort \/ Sleep \/ OutOfBand
FairSpec == Init /\ [][NextShort]_vars /\ WF_vars(PollOnceShort) /\ WF_vars(Sleep)

\* The process from its start: the import of the module with any environment,
\* then main's loop if the import got that far.
StartInit ==
    /\ pc = "import"
    /\ cfg \in Configs
    /\ MIN_MOVE = DEFAULT_MIN_MOVE
    /\ last_prices = EmptyDict
    /\ base0 = EmptyDict
    /\ ts = 0
    /\ resp = "none"
    /\ sent = 0
    /\ markets = <<>>
    /\ dropped = 0
    /\ ticker_payload = <<>>
    /\ movers = <<>>
    /\ events = <<>>
    /\ snap_ok = FALSE
    /\ movers_ok = FALSE
    /\ raised = FALSE
    /\ slept = 0
    /\ store_current = NoDoc
    /\ store_movers = EmptyDict
    /\ cycles = 0
    /\ prev_markets = <<>>

\* Lines 1-99 run, then main() is entered or the import raised.
Import ==
    /\ pc = "import"
    /\ pc' = IF ImportOk(cfg) THEN "idle" ELSE "failed"
    /\ IF ImportOk(cfg) THEN MIN_MOVE' \in ReadMinMove(cfg) ELSE UNCHANGED MIN_MOVE
    /\ UNCHANGED <<last_prices, base0, ts, resp, sent, markets, dropped,
                   ticker_payload, movers, events, snap_ok, movers_ok, raised,
                   slept, store_current, store_movers, cycles, prev_markets, cfg>>

StartNext == Import \/ PollOnceShort \/ Sleep \/ OutOfBand
StartSpec == StartInit /\ [][StartNext]_vars

TypeOK ==
    /\ pc \in {"import", "failed", "idle", "sleep"}
    /\ MIN_MOVE \in Thresholds
    /\ DOMAIN last_prices \subseteq Tickers
    /\ cycles \in 0..MaxCycles
    /\ Len(markets) <= MaxBatch

\* -------------------------------------------------- reading a finished cycle
\* In a state with pc = "sleep" the variables hold what the cycle just did.
Numeric(m) == FloatOk(PriceOf(m))
RaisesAt(m) == Numeric(m) /\ m.ticker = Unhashable
\* Entries whose loop body ran to its end: those before the first that raises.
Processed == {i \in 1..Len(markets) : \A j \in 1..i : ~RaisesAt(markets[j])}
Occ(tk) == {i \in Processed : markets[i].ticker = tk /\ Numeric(markets[i])}
Once(tk) == Cardinality(Occ(tk)) = 1
FirstOcc(tk) == CHOOSE i \in Occ(tk) : \A j \in Occ(tk) : i <= j
ThePrice(tk) == PriceOf(markets[FirstOcc(tk)]).v
MoversOf(tk) == {j \in 1..Len(movers) : movers[j].ticker = tk}
Calls(e) == Cardinality({i \in 1..Len(events) : events[i] = e})
FetchFailed == resp \in {"sign_fail", "net_fail", "non_json", "non_200"}

\* C1, as the claim states it: a ticker of the baseline fetched once with a
\* numeric price different from its baseline price gets exactly one movement
\* record, with difference = new - old, also when the change is below the
\* threshold.
C1_AsStated ==
    (pc = "sleep" /\ ~raised) =>
        \A tk \in DOMAIN base0 :
            (Once(tk) /\ ThePrice(tk) # base0[tk]) =>
                /\ Cardinality(MoversOf(tk)) = 1
                /\ \A j \in MoversOf(tk) : movers[j].change = ThePrice(tk) - base0[tk]

\* C1, amended: for a ticker of the baseline that detection processes once with
\* a numeric price P' different from its baseline price P, exactly one item is
\* appended to the movers list when |P' - P| >= MIN_MOVE (change = P' - P,
\* old = P, new = P'), and none when |P' - P| < MIN_MOVE.
C1_MoverIffThreshold ==
    pc = "sleep" =>
        \A tk \in DOMAIN base0 :
            (Once(tk) /\ ThePrice(tk) # base0[tk]) =>
                IF Abs(ThePrice(tk) - base0[tk]) >= MIN_MOVE
                THEN /\ Cardinality(MoversOf(tk)) = 1
                     /\ \A j \in MoversOf(tk) :
                            /\ movers[j].change = ThePrice(tk) - base0[tk]
                            /\ movers[j].old = base0[tk]
                            /\ movers[j].new = ThePrice(tk)
                            /\ movers[j].timestamp = ts
                ELSE MoversOf(tk) = {}

C1_Witness ==
    /\ pc = "sleep"
    /\ MIN_MOVE = 2
    /\ \E tk \in DOMAIN base0 :
           /\ Once(tk)
           /\ Abs(ThePrice(tk) - base0[tk]) = 2
           /\ Cardinality(MoversOf(tk)) = 1

\* C2, as the claim states it: after a cycle whose fetch succeeds and in which
\* a ticker is observed with a numeric price, the baseline entry of the ticker
\* is that price.
C2_AsStated ==
    (pc = "sleep" /\ ~raised) =>
        \A tk \in Tickers :
            Once(tk) => (tk \in DOMAIN last_prices /\ last_prices[tk] = ThePrice(tk))

\* C2, amended: after a cycle in which detection processes a ticker once with
\* a numeric price p, the baseline entry of the ticker is p when the ticker
\* was absent from the baseline or |p - old| >= MIN_MOVE, and is the old value
\* otherwise; a ticker detection does not process keeps its entry.
C2_BaselineUpdate ==
    pc = "sleep" =>
        \A tk \in Tickers :
            /\ Once(tk) =>
                  /\ tk \in DOMAIN last_prices
                  /\ last_prices[tk] =
                        IF tk \notin DOMAIN base0 THEN ThePrice(tk)
                        ELSE IF Abs(ThePrice(tk) - base0[tk]) >= MIN_MOVE THEN ThePrice(tk)
                        ELSE base0[tk]
            /\ Occ(tk) = {} => Get(last_prices, tk) = Get(base0, tk)

C2_Witness ==
    /\ pc = "sleep"
    /\ \E tk \in DOMAIN base0 :
           /\ Once(tk)
           /\ ThePrice(tk) # base0[tk]
           /\ Abs(ThePrice(tk) - base0[tk]) < MIN_MOVE
           /\ last_prices[tk] = base0[tk]

\* C3, as the claim states it: for every threshold >= 0, a ticker fetched at
\* its baseline price gets no movement record and keeps its baseline entry.
C3_AsStated ==
    (pc = "sleep" /\ ~raised) =>
        \A tk \in DOMAIN base0 :
            (Once(tk) /\ ThePrice(tk) = base0[tk]) =>
                (MoversOf(tk) = {} /\ last_prices[tk] = base0[tk])

\* C4, as the claim states it: a ticker absent from the baseline gets no
\* movement record in the cycle in which it first appears with a numeric
\* price, and its baseline entry is then that first observed price.
C4_AsStated ==
    (pc = "sleep" /\ ~raised) =>
        \A tk \in Tickers \ DOMAIN base0 :
            Occ(tk) # {} =>
                /\ MoversOf(tk) = {}
                /\ tk \in DOMAIN last_prices
                /\ last_prices[tk] = ThePrice(tk)

\* C4, amended: a ticker absent from the baseline that detection processes
\* once with a numeric price gets no movement record in that cycle and its
\* baseline entry is then that price; when the batch holds it several times,
\* the first occurrence records nothing and sets the entry, and the later
\* ones are compared against it.
C4_FirstObservation ==
    pc = "sleep" =>
        \A tk \in Tickers \ DOMAIN base0 :
            Occ(tk) # {} =>
                /\ tk \in DOMAIN last_prices
                /\ Cardinality(MoversOf(tk)) < Cardinality(Occ(tk))
                /\ Once(tk) => (MoversOf(tk) = {} /\ last_prices[tk] = ThePrice(tk))
                /\ \A j \in MoversOf(tk) :
                       (\A k \in MoversOf(tk) : j <= k) => movers[j].old = ThePrice(tk)

C4_Witness ==
    /\ pc = "sleep"
    /\ base0 # EmptyDict
    /\ \E tk \in Tickers \ DOMAIN base0 :
           /\ Once(tk)
           /\ ThePrice(tk) = MaxPrice
           /\ last_prices[tk] = MaxPrice
    /\ movers # <<>>

\* C5: a cycle whose fetch fails (signing, network, non-JSON body, non-200
\* status) leaves the baseline as the previous cycle left it, issues no
\* snapshot write and no movement-log write, raises nothing, and the next
\* cycle starts from that same baseline.
C5_FetchFailureIsolated ==
    /\ []((pc = "sleep" /\ FetchFailed) =>
            /\ last_prices = base0
            /\ markets = <<>>
            /\ Calls("snapshot_set") = 0
            /\ Calls("movers_set") = 0
            /\ ~snap_ok /\ ~movers_ok
            /\ ~raised)
    /\ [][(pc = "sleep" /\ FetchFailed) =>
            /\ pc' = "idle"
            /\ last_prices' = base0
            /\ store_current' = store_current
            /\ store_movers' = store_movers]_vars
    /\ [][(pc = "idle" /\ pc' = "sleep") =>
            /\ base0' = last_prices
            /\ FetchFailed' => (store_current' = store_current /\ store_movers' = store_movers)]_vars

C5_Witness ==
    /\ pc = "sleep"
    /\ resp = "non_200"
    /\ DOMAIN base0 = Tickers
    /\ store_current.exists

\* C6: the loop has no terminal state: every cycle, whatever failed in it, is
\* followed by the wait and the wait by another cycle, and the wait is the
\* same SLEEP_SECS after a failed cycle as after a successful one.
C6_LoopNeverEnds ==
    /\ [](pc = "sleep" => <>(pc = "idle"))
    /\ [](pc = "idle" => <>(pc = "sleep"))
    /\ [][(pc = "sleep" /\ pc' = "idle") => slept' = SLEEP_SECS]_vars

C6_Witness ==
    /\ pc = "sleep"
    /\ raised
    /\ ~snap_ok
    /\ slept = SLEEP_SECS

\* C7: in a cycle whose fetch returned markets, detection runs and yields the
\* same baseline and the same movers whether the two store writes succeed or
\* fail; a failed snapshot write does not keep the movers write from being
\* issued, and only detection itself can make poll_once raise.
C7_WriteFailuresContained ==
    (pc = "sleep" /\ markets # <<>>) =>
        /\ Calls("snapshot_set") = 1
        /\ Calls("detect") = 1
        /\ last_prices = Detect(markets, base0, MIN_MOVE, ts).last_prices
        /\ movers = Detect(markets, base0, MIN_MOVE, ts).movers
        /\ raised = (\E i \in 1..Len(markets) : RaisesAt(markets[i]))
        /\ Calls("movers_set") = (IF movers # <<>> /\ ~raised THEN 1 ELSE 0)

C7_Witness ==
    /\ pc = "sleep"
    /\ ~snap_ok
    /\ ~store_current.exists
    /\ movers # <<>>
    /\ movers_ok
    /\ last_prices # base0

\* C8: no entry without a ticker field, and no entry that is not a record, is
\* in the list poll_once works on, in the snapshot payload, in the stored
\* snapshot or under a key of the baseline.
C8_NoTickerlessEntry ==
    /\ \A i \in 1..Len(markets) : markets[i].kind = "dict" /\ markets[i].has_ticker
    /\ \A i \in 1..Len(ticker_payload) : ticker_payload[i].ticker # NoKey
    /\ \A i \in 1..Len(store_current.markets) : store_current.markets[i].ticker # NoKey
    /\ NoKey \notin DOMAIN last_prices

C8_Witness ==
    /\ pc = "sleep"
    /\ dropped > 0
    /\ snap_ok
    /\ Len(store_current.markets) = 1
    /\ last_prices # base0

\* C9, as the claim states it: the number of movement-log writes of a cycle
\* equals the number of movement records detected in it.
C9_AsStated ==
    (pc = "sleep" /\ ~raised) => Calls("movers_set") = Len(movers)

\* C9, amended: a cycle issues at most one movement-log write: exactly one
\* when detection completes with at least one mover, none otherwise; the one
\* document, keyed by the timestamp of the cycle, holds all the movers of the
\* cycle as its items with count = their number; a write adds a document
\* under a new key and leaves every document written before as it was.
C9_OneMoversDocPerCycle ==
    /\ [](pc = "sleep" =>
            /\ Calls("movers_set") = (IF movers # <<>> /\ ~raised THEN 1 ELSE 0)
            /\ movers_ok =>
                  /\ ts \in DOMAIN store_movers
                  /\ store_movers[ts].items = movers
                  /\ store_movers[ts].count = Len(movers)
                  /\ store_movers[ts].timestamp = ts
                  /\ store_movers[ts].min_move = MIN_MOVE)
    /\ [][\A k \in DOMAIN store_movers :
            k \in DOMAIN store_movers' /\ store_movers'[k] = store_movers[k]]_vars
    /\ [][DOMAIN store_movers' # DOMAIN store_movers =>
            (movers_ok' /\ DOMAIN store_movers' = DOMAIN store_movers \cup {ts'})]_vars

C9_Witness ==
    /\ pc = "sleep"
    /\ Len(movers) = 2
    /\ movers_ok
    /\ Cardinality(DOMAIN store_movers) = 2

\* C10, as the claim states it: a field of the stored snapshot document that a
\* snapshot write does not include is still there after the write.
C10_AsStated ==
    [][(store_current.exists /\ store_current.side) => store_current'.side]_vars

\* C11: at the end of a cycle whose fetch and snapshot write succeeded, the
\* stored snapshot is the payload of that one cycle: it carries the cycle's
\* timestamp, holds for every fetched entry with a price that entry's ticker
\* and prices, holds nothing that was not fetched in the cycle, and was
\* submitted by a single write; the stored list changes only by such a write.
C11_SnapshotIsOneCycle ==
    /\ []((pc = "sleep" /\ snap_ok) =>
            /\ Calls("snapshot_set") = 1
            /\ store_current.exists
            /\ store_current.timestamp = ts
            /\ \A i \in 1..Len(markets) :
                   PriceOf(markets[i]) # PyNone =>
                       \E j \in 1..Len(store_current.markets) :
                           /\ store_current.markets[j].ticker = markets[i].ticker
                           /\ store_current.markets[j].yes_price = markets[i].yes_price
                           /\ store_current.markets[j].last_price = markets[i].last_price
            /\ \A j \in 1..Len(store_current.markets) :
                   \E i \in 1..Len(markets) :
                       /\ PriceOf(markets[i]) # PyNone
                       /\ store_current.markets[j].ticker = markets[i].ticker
                       /\ store_current.markets[j].yes_price = markets[i].yes_price
                       /\ store_current.markets[j].last_price = markets[i].last_price
            /\ Len(store_current.markets) =
                   Cardinality({i \in 1..Len(markets) : PriceOf(markets[i]) # PyNone}))
    /\ [][store_current'.markets # store_current.markets =>
            (pc = "idle" /\ pc' = "sleep" /\ snap_ok' /\ store_current'.timestamp = ts')]_vars

C11_Witness ==
    /\ pc = "sleep"
    /\ snap_ok
    /\ ts = MaxCycles
    /\ Len(markets) = 2
    /\ Len(store_current.markets) = 1
    /\ store_current.markets[1].ticker = "A"
    /\ store_current.markets[1].yes_price = Num(MaxPrice)

\* C12: when two consecutive cycles fetch the same batch and both snapshot
\* writes succeed, the second write leaves the stored per-ticker list as the
\* first one made it; only the timestamp of the document differs.
C12_SnapshotIdempotent ==
    [][(pc = "idle" /\ pc' = "sleep" /\ snap_ok'
        /\ prev_markets # <<>> /\ markets' = prev_markets) =>
            /\ store_current'.markets = store_current.markets
            /\ store_current'.exists
            /\ store_current'.timestamp = ts'
            /\ store_current'.timestamp # store_current.timestamp]_vars

C12_Witness ==
    /\ pc = "sleep"
    /\ snap_ok
    /\ prev_markets = markets
    /\ Len(markets) = 2
    /\ Len(store_current.markets) = 2
    /\ store_current.timestamp = MaxCycles

\* C13: when signing fails no HTTP request is sent in that cycle, and the
\* cycle ends as it does after a transport error: fetch_cfp_markets returns
\* the empty list, nothing is raised, nothing is written, the baseline stays.
C13_NoUnsignedRequest ==
    (pc = "sleep" /\ resp \in {"sign_fail", "net_fail"}) =>
        /\ resp = "sign_fail" => (sent = 0 /\ Calls("http") = 0)
        /\ resp = "net_fail" => (sent = 1 /\ Calls("http") = 1)
        /\ Calls("sign") = 1
        /\ markets = <<>>
        /\ ~raised
        /\ events[Len(events)] = "return"
        /\ Calls("snapshot_set") = 0
        /\ Calls("movers_set") = 0
        /\ last_prices = base0

C13_Witness ==
    /\ pc = "sleep"
    /\ resp = "sign_fail"
    /\ sent = 0
    /\ base0 # EmptyDict

\* Position of the first call e among the calls of the cycle (0: not called).
At(e) == IF Calls(e) = 0 THEN 0
         ELSE CHOOSE i \in 1..Len(events) : events[i] = e /\ \A j \in 1..(i - 1) : events[j] # e
StoreWrites == {"snapshot_set", "movers_set"}

\* C14, as the claim states it: when an error is raised in a cycle after the
\* fetch succeeded, the baseline the next cycle uses is the baseline as it
\* was before the failed cycle started.
C14_AsStated ==
    [][(pc = "sleep" /\ raised /\ markets # <<>>) => last_prices' = base0]_vars

\* C15, as the claim states it: no store write of a cycle is issued before
\* the movement detection of that cycle has completed.
C15_AsStated ==
    pc = "sleep" =>
        \A i \in 1..Len(events) :
            events[i] \in StoreWrites => (At("detect") # 0 /\ At("detect") < i)

\* C15, amended: within a cycle the calls occur in the order fetch, snapshot
\* write, movement detection, movers write: the snapshot write is issued before
\* detection starts and only the movers write after it has completed; every
\* call of a cycle is made once at most, the cycle ends with its return or
\* raise, and the next cycle starts only from the wait that follows.
C15_OrderOfCalls ==
    /\ [](pc = "sleep" =>
            /\ events[1] = "sign"
            /\ Calls("http") = 1 => At("http") = 2
            /\ \A e \in {"sign", "http", "snapshot_set", "detect", "movers_set"} :
                   Calls(e) <= 1
            /\ Calls("snapshot_set") = 1 =>
                   (Calls("http") = 1 /\ At("http") < At("snapshot_set"))
            /\ Calls("detect") = 1 =>
                   (Calls("snapshot_set") = 1 /\ At("snapshot_set") < At("detect"))
            /\ Calls("movers_set") = 1 =>
                   (Calls("detect") = 1 /\ At("detect") < At("movers_set"))
            /\ events[Len(events)] \in {"return", "raise"}
            /\ Calls("return") + Calls("raise") = 1)
    /\ [](pc # "sleep" => events = <<>>)
    /\ [][events' # <<>> => (pc = "idle" /\ events = <<>> /\ pc' = "sleep")]_vars
    /\ [][pc = "sleep" => (pc' = "idle" /\ slept' = SLEEP_SECS)]_vars

C15_Witness ==
    /\ pc = "sleep"
    /\ events = <<"sign", "http", "snapshot_set", "detect", "movers_set", "return">>
    /\ snap_ok
    /\ movers_ok
    /\ slept = SLEEP_SECS

\* C16: a cycle sends at most one HTTP request; a network failure, a body
\* that is not JSON and a status other than 200 all end the fetch the same
\* way, with the empty list after that one request and nothing raised.
C16_NoRetry ==
    /\ sent <= 1
    /\ Calls("http") = sent
    /\ (pc = "sleep" /\ resp \in {"net_fail", "non_json", "non_200"}) =>
           /\ sent = 1
           /\ events = <<"sign", "http", "return">>
           /\ markets = <<>>
           /\ ~raised
           /\ last_prices = base0

C16_Witness ==
    /\ pc = "sleep"
    /\ resp = "non_json"
    /\ sent = 1
    /\ store_current.exists

\* C17, as the claim states it: polling never begins when one of the four
\* settings is missing or malformed.
C17_AsStated ==
    pc \in {"idle", "sleep"} => cfg = GoodConfig

\* C17, amended: the import fails before main's loop, and no fetch and no
\* store write ever occurs, when the store credentials are missing or
\* malformed, the API key identifier is missing, the private key is missing
\* or does not parse, or the threshold is set to something that is not a
\* number.  A missing threshold is the default 1.0 and a key identifier that
\* is present is not examined: with these the process does start polling.
C17_StartupChecks ==
    /\ [](pc \in {"idle", "sleep"} =>
            /\ cfg.store = "ok"
            /\ cfg.api_key # "missing"
            /\ cfg.private_key = "ok"
            /\ cfg.min_move # "malformed"
            /\ cfg.min_move = "missing" => MIN_MOVE = DEFAULT_MIN_MOVE)
    /\ []((pc # "import" /\ (cfg.store # "ok" \/ cfg.api_key = "missing"
                            \/ cfg.private_key # "ok" \/ cfg.min_move = "malformed")) =>
            /\ pc = "failed"
            /\ events = <<>>
            /\ sent = 0
            /\ ts = 0
            /\ ~store_current.exists
            /\ store_movers = EmptyDict
            /\ last_prices = EmptyDict)
    /\ [][pc # "failed"]_vars

C17_Witness ==
    /\ pc = "failed"
    /\ cfg = [GoodConfig EXCEPT !.private_key = "malformed"]

LastOcc(tk) == CHOOSE i \in Occ(tk) : \A j \in Occ(tk) : j <= i
LastPrice(tk) == PriceOf(markets[LastOcc(tk)]).v
\* What one occurrence at price p makes of a baseline entry b.
Step(b, p) == IF Abs(p - b) >= MIN_MOVE THEN p ELSE b

\* C18, as the claim states it: when a batch holds a ticker more than once
\* with numeric prices, its baseline entry after the cycle is the price of
\* its last occurrence.
C18_AsStated ==
    (pc = "sleep" /\ ~raised) =>
        \A tk \in Tickers :
            Cardinality(Occ(tk)) >= 2 =>
                (tk \in DOMAIN last_prices /\ last_prices[tk] = LastPrice(tk))

\* C18, amended: the baseline holds one entry per ticker and the occurrences
\* of a ticker in a batch are applied in order, each against the entry the
\* one before left: the entry after the cycle is the price of the last
\* occurrence that was a first observation or differed from the entry by at
\* least MIN_MOVE; it is the last occurrence's price only if that one did.
C18_LastRecordedWins ==
    pc = "sleep" =>
        \A tk \in Tickers :
            Cardinality(Occ(tk)) >= 2 =>
                /\ tk \in DOMAIN last_prices
                /\ last_prices[tk] \in
                       {PriceOf(markets[i]).v : i \in Occ(tk)}
                       \cup (IF tk \in DOMAIN base0 THEN {base0[tk]} ELSE {})
                /\ Cardinality(Occ(tk)) = 2 =>
                       last_prices[tk] =
                           Step(IF tk \in DOMAIN base0 THEN Step(base0[tk], ThePrice(tk))
                                ELSE ThePrice(tk),
                                LastPrice(tk))

C18_Witness ==
    /\ pc = "sleep"
    /\ \E tk \in Tickers :
           /\ Cardinality(Occ(tk)) = 2
           /\ tk \in DOMAIN base0
           /\ last_prices[tk] # LastPrice(tk)
           /\ last_prices[tk] # base0[tk]

\* C19, as the claim states it: after a cycle whose fetch succeeds, for every
\* entry of the batch with a ticker and a numeric price p, the baseline
\* entry b of the ticker has b = p or |p - b| < MIN_MOVE.
C19_AsStated ==
    (pc = "sleep" /\ ~raised) =>
        \A i \in 1..Len(markets) :
            (Numeric(markets[i]) /\ markets[i].ticker \in Tickers) =>
                /\ markets[i].ticker \in DOMAIN last_prices
                /\ \/ last_prices[markets[i].ticker] = PriceOf(markets[i]).v
                   \/ Abs(PriceOf(markets[i]).v - last_prices[markets[i].ticker]) < MIN_MOVE

\* C19, amended: after a cycle, for every ticker the detection loop processed
\* with a numeric price, the baseline entry b and the price p of the last
\* processed occurrence of the ticker have b = p or |p - b| < MIN_MOVE; every
\* mover is measured against the entry as last recorded (the entry at the
\* start of the cycle or the new price of the mover before it), not against
\* the price fetched before, and the last mover's new price is the entry.
C19_BoundedLag ==
    pc = "sleep" =>
        \A tk \in Tickers :
            /\ Occ(tk) # {} =>
                  /\ tk \in DOMAIN last_prices
                  /\ \/ last_prices[tk] = LastPrice(tk)
                     \/ Abs(LastPrice(tk) - last_prices[tk]) < MIN_MOVE
            /\ \A j \in MoversOf(tk) :
                  /\ movers[j].change = movers[j].new - movers[j].old
                  /\ Abs(movers[j].change) >= MIN_MOVE
                  /\ (\A k \in MoversOf(tk) : j <= k) =>
                         movers[j].old = (IF tk \in DOMAIN base0 THEN base0[tk]
                                          ELSE ThePrice(tk))
                  /\ (\A k \in MoversOf(tk) : k <= j) => movers[j].new = last_prices[tk]
                  /\ \A k \in MoversOf(tk) :
                         (j < k /\ \A l \in MoversOf(tk) : ~(j < l /\ l < k)) =>
                             movers[k].old = movers[j].new

C19_Witness ==
    /\ pc = "sleep"
    /\ MIN_MOVE = 2
    /\ "A" \in DOMAIN base0
    /\ base0["A"] = 0
    /\ Len(markets) = 2
    /\ markets[1] = Quote(TRUE, "A", Num(1), PyNone)
    /\ markets[2] = Quote(TRUE, "A", Num(2), PyNone)
    /\ Len(movers) = 1
    /\ movers[1].old = 0
    /\ movers[1].change = 2

\* C20: the set of tickers of the baseline never shrinks, whatever a cycle
\* does, and an entry only ever changes to a numeric price fetched for its
\* ticker in the cycle that changes it, so every value of the baseline is a
\* price that was fetched for its ticker.
C20_BaselineOnlyGrows ==
    [][/\ DOMAIN last_prices \subseteq DOMAIN last_prices'
       /\ \A tk \in DOMAIN last_prices' :
              \/ (tk \in DOMAIN last_prices /\ last_prices'[tk] = last_prices[tk])
              \/ /\ pc = "idle"
                 /\ \E i \in 1..Len(markets') :
                        /\ markets'[i].ticker = tk
                        /\ Numeric(markets'[i])
                        /\ PriceOf(markets'[i]).v = last_prices'[tk]]_vars

C20_Witness ==
    /\ pc = "sleep"
    /\ DOMAIN base0 = {"B"}
    /\ DOMAIN last_prices = Tickers
    /\ \A i \in 1..Len(markets) : markets[i].ticker # "B"
    /\ last_prices["B"] = MaxPrice
====
